---------------------------- MODULE Spec2Model ----------------------------
(***************************************************************************)
(* Model of the UploadCSVChart component (src/data-manager.tsx).           *)
(*                                                                         *)
(* The component keeps five pieces of React state (data, columns, xField,  *)
(* yField, chartType) and one <svg> element that d3 draws into.  A file    *)
(* selection starts an asynchronous Papa.parse; its complete or error      *)
(* callback runs later.  All state updates made by one callback are        *)
(* committed together, and the render effect keyed on                      *)
(* {data, chartType, xField, yField} runs once after that commit.          *)
(*                                                                         *)
(* The CSV tokenizer is an external collaborator: a file is represented by *)
(* the rows Papa.parse hands to the complete callback.                     *)
(***************************************************************************)
EXTENDS Integers, Sequences, FiniteSets, Bags, TLC

(***************************************************************************)
(* Bounds of the model.                                                    *)
(***************************************************************************)
\* parses that may be in flight at the same time
MaxPending == 2
\* parse errors that are followed in one behaviour
MaxErrors == 1

(***************************************************************************)
(* Cell values.  Papa.parse with dynamicTyping yields numbers, booleans,   *)
(* strings and null; a key missing from a row reads as undefined.          *)
(***************************************************************************)
Num(n)    == [t |-> "number",    n |-> n, s |-> ""]
Str(s)    == [t |-> "string",    n |-> 0, s |-> s]
Bool(b)   == [t |-> "boolean",   n |-> IF b THEN 1 ELSE 0, s |-> ""]
Null      == [t |-> "null",      n |-> 0, s |-> ""]
Undefined == [t |-> "undefined", n |-> 0, s |-> ""]

\* One cell of a row object: property name and value.
Cell(k, v) == [k |-> k, v |-> v]

\* d[key]: the property of a row object, undefined when the row has no such key.
Get(row, key) ==
    IF \E i \in 1..Len(row) : row[i].k = key
    THEN row[CHOOSE i \in 1..Len(row) : row[i].k = key].v
    ELSE Undefined

\* Object.keys(row): the row's own property names in property order.
Keys(row) == [i \in 1..Len(row) |-> row[i].k]

\* JavaScript ToNumber, as applied by unary + and by isNaN.
\* The result is [nan |-> TRUE] for NaN and [nan |-> FALSE, n |-> the number].
ToNumber(v) ==
    CASE v.t = "number"    -> [nan |-> FALSE, n |-> v.n]
      [] v.t = "boolean"   -> [nan |-> FALSE, n |-> v.n]
      [] v.t = "null"      -> [nan |-> FALSE, n |-> 0]
      [] v.t = "undefined" -> [nan |-> TRUE,  n |-> 0]
      [] v.t = "string"    ->
            IF v.s = "0x2" THEN [nan |-> FALSE, n |-> 2]
            ELSE IF v.s = " " THEN [nan |-> FALSE, n |-> 0]
            ELSE [nan |-> TRUE, n |-> 0]

\* isNaN(v)
IsNaN(v) == ToNumber(v).nan

\* v != null (loose inequality: false for null and for undefined)
NotNullish(v) == v.t # "null" /\ v.t # "undefined"

(***************************************************************************)
(* The files a user can pick, each given by its parse result.              *)
(***************************************************************************)
Files ==
    << \* 1: header only, zero rows
       << >>,
       \* 2: cat,v with a repeated category
       << << Cell("cat", Str("a")), Cell("v", Num(1)) >>,
          << Cell("cat", Str("a")), Cell("v", Num(2)) >>,
          << Cell("cat", Str("b")), Cell("v", Num(3)) >> >>,
       \* 3: x,y with numeric x; y is in turn a number, a non-numeric string,
       \*    a boolean, a hexadecimal string beside an empty x, and missing
       \*    (a short line)
       << << Cell("x", Num(1)), Cell("y", Num(5)) >>,
          << Cell("x", Num(2)), Cell("y", Str("abc")) >>,
          << Cell("x", Num(2)), Cell("y", Bool(TRUE)) >>,
          << Cell("x", Null),   Cell("y", Str("0x2")) >>,
          << Cell("x", Num(3)) >> >> >>

FileIds == 1..Len(Files)

\* e.target.files?.[0] is undefined when the picker is dismissed
NoFile == 0

ChartTypes == {"line", "bar", "pie"}

VARIABLES
    data,       \* useState: the dataset
    columns,    \* useState: the column names
    xField,     \* useState: selected x field, "" when none
    yField,     \* useState: selected y field, "" when none
    chartType,  \* useState: "line", "bar" or "pie"
    chart,      \* the child elements of the <svg> that chartRef points to
    pending,    \* bag of the files whose parse has started and not called back
    errLog,     \* number of console.error calls made by the error callback
    latest,     \* the file picked most recently (NoFile before the first pick)
    last,       \* the callback or change handler that ran last
    effect      \* what the render effect did when it last ran

vars == << data, columns, xField, yField, chartType, chart,
           pending, errLog, latest, last, effect >>


(***************************************************************************)
(* Helpers of d3-array and d3-scale used by the renderers.                 *)
(***************************************************************************)
\* One element appended to the <svg>: its tag, and for an axis group the kind
\* and domain of its scale, for a data-bound element its key and value.
Mark(tag, scale, dom, key, n) ==
    [tag |-> tag, scale |-> scale, dom |-> dom, key |-> key, n |-> n]

\* seq.map(d => d[field])
Pluck(rows, field) == [i \in 1..Len(rows) |-> Get(rows[i], field)]

\* The domain of an ordinal scale (scalePoint, scaleBand, scaleOrdinal): the
\* given values with repetitions of an earlier value dropped.
RECURSIVE OrdinalDomain(_)
OrdinalDomain(values) ==
    IF values = << >> THEN << >>
    ELSE LET front == OrdinalDomain(SubSeq(values, 1, Len(values) - 1))
             v     == values[Len(values)]
         IN  IF \E i \in 1..Len(front) : front[i] = v THEN front
             ELSE Append(front, v)

\* d3.max over numbers; the caller supplies 0 for an empty array (?? 0)
RECURSIVE D3Max(_)
D3Max(nums) ==
    IF nums = << >> THEN 0
    ELSE LET m == D3Max(Tail(nums))
         IN  IF Len(nums) = 1 \/ Head(nums) > m THEN Head(nums) ELSE m

RECURSIVE D3Min(_)
D3Min(nums) ==
    IF nums = << >> THEN 0
    ELSE LET m == D3Min(Tail(nums))
         IN  IF Len(nums) = 1 \/ Head(nums) < m THEN Head(nums) ELSE m

\* d3.extent(xValues): [min, max], or [undefined, undefined] for no values
Extent(values) ==
    IF values = << >> THEN << Undefined, Undefined >>
    ELSE LET nums == [i \in 1..Len(values) |-> values[i].n]
         IN  << Num(D3Min(nums)), Num(D3Max(nums)) >>

\* d3.sum(v, d => +d[yField]): values that coerce to NaN (or to 0) add nothing
RECURSIVE D3Sum(_, _)
D3Sum(rows, field) ==
    IF rows = << >> THEN 0
    ELSE LET num == ToNumber(Get(Head(rows), field))
         IN  (IF num.nan THEN 0 ELSE num.n) + D3Sum(Tail(rows), field)

\* The mutant of Rollups that never merges rows of an equal key
RollupsUnmerged(rows, x, y) ==
    [i \in 1..Len(rows) |->
        [key |-> Get(rows[i], x), value |-> D3Sum(<< rows[i] >>, y)]]

\* d3.rollups(data, reduce, key): one [key, reduce(rows of the key)] entry per
\* distinct key, entries in the order in which the keys first occur.
RECURSIVE GroupRows(_, _)
GroupRows(rows, field) ==
    IF rows = << >> THEN << >>
    ELSE LET front == GroupRows(SubSeq(rows, 1, Len(rows) - 1), field)
             row   == rows[Len(rows)]
             key   == Get(row, field)
         IN  IF \E i \in 1..Len(front) : front[i].key = key
             THEN [i \in 1..Len(front) |->
                     IF front[i].key = key
                     THEN [key |-> key, rows |-> Append(front[i].rows, row)]
                     ELSE front[i]]
             ELSE Append(front, [key |-> key, rows |-> << row >>])

Rollups(rows, x, y) ==
    LET groups == GroupRows(rows, x)
    IN  [i \in 1..Len(groups) |->
            [key |-> groups[i].key, value |-> D3Sum(groups[i].rows, y)]]

(***************************************************************************)
(* The three renderers.  Each returns the children of the <svg> after it   *)
(* ran on an <svg> that the render effect has just emptied.                *)
(***************************************************************************)
\* data.filter(d => d[xField] != null && d[yField] != null && !isNaN(d[yField]))
FilteredData(d, x, y) ==
    LET keep(row) == /\ NotNullish(Get(row, x))
                     /\ NotNullish(Get(row, y))
                     /\ ~IsNaN(Get(row, y))
    IN  SelectSeq(d, keep)

\* yScale domain: [0, d3.max(yValues) ?? 0].nice().  On the values of Files
\* (non-negative integers below 10) nice() leaves the upper bound in place.
YDomain(rows, y) ==
    << Num(0), Num(D3Max([i \in 1..Len(rows) |-> ToNumber(Get(rows[i], y)).n])) >>

\* The elements bound to rows: one per row, carrying d[xField] and +d[yField]
RowMarks(tag, rows, x, y) ==
    [i \in 1..Len(rows) |->
        Mark(tag, "", << >>, Get(rows[i], x), ToNumber(Get(rows[i], y)).n)]

drawLineChart(ref, d, x, y) ==
    IF ~ref THEN << >>
    ELSE
      LET filteredData == FilteredData(d, x, y)
          xValues      == Pluck(filteredData, x)
          isXNumeric   == \A i \in 1..Len(xValues) : xValues[i].t = "number"
          xAxis        == IF isXNumeric
                          THEN Mark("g", "linear", Extent(xValues), Null, 0)
                          ELSE Mark("g", "point", OrdinalDomain(xValues), Null, 0)
          yAxis        == Mark("g", "linear", YDomain(filteredData, y), Null, 0)
          path         == Mark("path", "", << >>, Null, Len(filteredData))
      IN  << xAxis, yAxis, path >> \o RowMarks("circle", filteredData, x, y)

drawBarChart(ref, d, x, y) ==
    IF ~ref THEN << >>
    ELSE
      LET filteredData == FilteredData(d, x, y)
          xValues      == Pluck(filteredData, x)
          xAxis        == Mark("g", "band", OrdinalDomain(xValues), Null, 0)
          yAxis        == Mark("g", "linear", YDomain(filteredData, y), Null, 0)
      IN  << xAxis, yAxis >> \o RowMarks("rect", filteredData, x, y)

drawPieChart(ref, d, x, y) ==
    IF ~ref THEN << >>
    ELSE
      LET grouped == Rollups(d, x, y)
          g       == Mark("g", "", << >>, Null, 0)
          slices  == [i \in 1..Len(grouped) |->
                        Mark("path", "", << >>, grouped[i].key, grouped[i].value)]
          labels  == [i \in 1..Len(grouped) |->
                        Mark("text", "", << >>, grouped[i].key, 0)]
      IN  << g >> \o slices \o labels

(***************************************************************************)
(* The render effect and the <svg> element.                                *)
(***************************************************************************)
\* The <svg> exists only while columns.length > 0.  It loses its children
\* when it is unmounted and starts without children when it is mounted.
SvgAfterCommit(oldColumns, newColumns, ch) ==
    IF oldColumns = << >> \/ newColumns = << >> THEN << >> ELSE ch

\* The chain that picks the renderer for chart type t
Draw(t, ref, d, x, y) ==
    IF t = "line" THEN drawLineChart(ref, d, x, y)
    ELSE IF t = "bar" THEN drawBarChart(ref, d, x, y)
    ELSE IF t = "pie" THEN drawPieChart(ref, d, x, y)
    ELSE << >>

\* The mutant of RenderEffect whose guard forgets the two fields
RenderEffectUnguardedFields(ref, ch, d, t, x, y) ==
    IF Len(d) = 0
    THEN [svg |-> ch, drew |-> "skip"]
    ELSE [svg |-> Draw(t, ref, d, x, y), drew |-> t]

\* The body of the render effect, run with dataset d, chart type t and fields
\* x, y on an <svg> holding ch; ref tells whether chartRef.current is set.
\* svg: the children of the <svg> afterwards.  drew: the renderer that was
\* started, "skip" when the effect returned at its guard.
RenderEffect(ref, ch, d, t, x, y) ==
    IF Len(d) = 0 \/ x = "" \/ y = ""
    THEN [svg |-> ch, drew |-> "skip"]
    ELSE [svg |-> Draw(t, ref, d, x, y), drew |-> t]

(***************************************************************************)
(* The callbacks given to Papa.parse.                                       *)
(***************************************************************************)
\* The mutant of OnComplete that keeps the field selection for a new dataset
OnCompleteKeepsFields(rows) ==
    IF Len(rows) = 0
    THEN [data |-> << >>, columns |-> << >>, xField |-> xField, yField |-> yField]
    ELSE [data |-> rows, columns |-> Keys(rows[1]),
          xField |-> xField, yField |-> yField]

\* The mutant of OnComplete that keeps the columns when no row was parsed
OnCompleteKeepsColumns(rows) ==
    IF Len(rows) = 0
    THEN [data |-> << >>, columns |-> columns, xField |-> xField, yField |-> yField]
    ELSE [data |-> rows, columns |-> Keys(rows[1]), xField |-> "", yField |-> ""]

\* complete: the React state after the callback ran on results.data = rows
OnComplete(rows) ==
    IF Len(rows) = 0
    THEN [data |-> << >>, columns |-> << >>, xField |-> xField, yField |-> yField]
    ELSE [data |-> rows, columns |-> Keys(rows[1]), xField |-> "", yField |-> ""]

\* The mutant of OnError that drops the dataset
OnErrorClears ==
    [data |-> << >>, columns |-> << >>, xField |-> xField, yField |-> yField]

\* error: the React state after the callback ran (it only logs)
OnError ==
    [data |-> data, columns |-> columns, xField |-> xField, yField |-> yField]

\* The commit that follows a change of state: the new state becomes current,
\* the <svg> is mounted or unmounted, then the render effect runs.
Commit(st, t) ==
    /\ data' = st.data
    /\ columns' = st.columns
    /\ xField' = st.xField
    /\ yField' = st.yField
    /\ chartType' = t
    /\ LET run == RenderEffect(st.columns # << >>,
                               SvgAfterCommit(columns, st.columns, chart),
                               st.data, t, st.xField, st.yField)
       IN  /\ chart' = run.svg
           /\ effect' = run.drew

Init ==
    /\ data = << >>
    /\ columns = << >>
    /\ xField = ""
    /\ yField = ""
    /\ chartType = "line"
    /\ chart = << >>
    /\ pending = EmptyBag
    /\ errLog = 0
    /\ latest = NoFile
    /\ last = "init"
    /\ effect = "skip"

\* handleFile: the user picks file f in the file input, or dismisses the picker
handleFile(f) ==
    /\ IF f = NoFile
       THEN UNCHANGED << pending, latest >>
       ELSE /\ BagCardinality(pending) < MaxPending
            /\ pending' = pending (+) SetToBag({f})
            /\ latest' = f
    /\ UNCHANGED << data, columns, xField, yField, chartType, chart, errLog,
                    last, effect >>

\* A parse of file f that is in flight ends in the complete callback
Complete(f) ==
    /\ BagIn(f, pending)
    /\ pending' = pending (-) SetToBag({f})
    /\ Commit(OnComplete(Files[f]), chartType)
    /\ last' = "complete"
    /\ UNCHANGED << errLog, latest >>

\* A parse of file f that is in flight ends in the error callback
ParseError(f) ==
    /\ BagIn(f, pending)
    /\ errLog < MaxErrors
    /\ pending' = pending (-) SetToBag({f})
    /\ errLog' = errLog + 1
    /\ LET st == OnError
       IN  /\ data' = st.data
           /\ columns' = st.columns
           /\ xField' = st.xField
           /\ yField' = st.yField
    /\ last' = "error"
    /\ UNCHANGED << chartType, chart, latest, effect >>

\* onChange of the chart type <select> (rendered while columns.length > 0)
SetChartType(t) ==
    /\ columns # << >>
    /\ t # chartType
    /\ Commit([data |-> data, columns |-> columns,
               xField |-> xField, yField |-> yField], t)
    /\ last' = "select"
    /\ UNCHANGED << pending, errLog, latest >>

\* The values offered by a field <select>: "" and the columns
Options == {""} \cup {columns[i] : i \in 1..Len(columns)}

\* onChange of the x field <select>
SetXField(c) ==
    /\ columns # << >>
    /\ c \in Options
    /\ c # xField
    /\ Commit([data |-> data, columns |-> columns,
               xField |-> c, yField |-> yField], chartType)
    /\ last' = "select"
    /\ UNCHANGED << pending, errLog, latest >>

\* onChange of the y field <select>
SetYField(c) ==
    /\ columns # << >>
    /\ c \in Options
    /\ c # yField
    /\ Commit([data |-> data, columns |-> columns,
               xField |-> xField, yField |-> c], chartType)
    /\ last' = "select"
    /\ UNCHANGED << pending, errLog, latest >>

\* Every column name that occurs in the first row of some file
ColumnNames ==
    UNION {{Files[f][1][c].k : c \in 1..Len(Files[f][1])} :
              f \in {g \in FileIds : Len(Files[g]) > 0}}

Next ==
    \/ \E f \in FileIds \cup {NoFile} : handleFile(f)
    \/ \E f \in FileIds : Complete(f)
    \/ \E f \in FileIds : ParseError(f)
    \/ \E t \in ChartTypes : SetChartType(t)
    \/ \E c \in ColumnNames \cup {""} : SetXField(c)
    \/ \E c \in ColumnNames \cup {""} : SetYField(c)

Spec == Init /\ [][Next]_vars

(***************************************************************************)
(* Properties.                                                             *)
(***************************************************************************)
\* The render effect's precondition on the current state
Ready == Len(data) > 0 /\ xField # "" /\ yField # ""

\* A row that belongs to the filtered series: x and y both non-null and y
\* numeric-coercible
ValidRow(row) ==
    /\ Get(row, xField).t \notin {"null", "undefined"}
    /\ Get(row, yField).t \notin {"null", "undefined"}
    /\ ~ToNumber(Get(row, yField)).nan

ValidRows == SelectSeq(data, ValidRow)

\* C1: a chart draw is started only when the dataset is non-empty and both
\* xField and yField are non-empty.
C1_DrawOnlyWhenReady ==
    effect \in ChartTypes => Len(data) > 0 /\ xField # "" /\ yField # ""

C1_Witness ==
    effect = "bar" /\ last = "select" /\ chart # << >> /\ Ready

\* C2: whenever a newly selected file finishes parsing, xField and yField are
\* empty and no mark of the earlier chart remains.
C2_LoadResetsSelectionAndChart ==
    last = "complete" => xField = "" /\ yField = "" /\ chart = << >>

\* C3: after any sequence of changes the chart area holds exactly the marks
\* produced for the current {dataset, chartType, xField, yField}: those of the
\* renderer when the state is ready to draw, none otherwise.
C3_ChartShowsCurrentState ==
    chart = IF Ready
            THEN Draw(chartType, TRUE, data, xField, yField)
            ELSE << >>

\* C4: for each chart type the drawn chart is the one built from the filtered
\* series alone: rows outside it add no mark, domain entry, group or sum.
C4_ChartBuiltFromFilteredSeries ==
    effect \in ChartTypes =>
        chart = Draw(chartType, TRUE, ValidRows, xField, yField)

\* C5: a pie chart lists each distinct xField value of the rows exactly once,
\* in order of first appearance, with the sum of the yField values of the rows
\* of that value, and holds one slice and one label per group.
XKey(r) == Get(data[r], xField)

DistinctXKeys == {XKey(r) : r \in 1..Len(data)}

FirstIndex(k) ==
    CHOOSE r \in 1..Len(data) :
        XKey(r) = k /\ \A q \in 1..(r - 1) : XKey(q) # k

RECURSIVE SumOfY(_)
SumOfY(rowIndexes) ==
    IF rowIndexes = {} THEN 0
    ELSE LET r == CHOOSE r \in rowIndexes : TRUE
             y == ToNumber(Get(data[r], yField))
         IN  (IF y.nan THEN 0 ELSE y.n) + SumOfY(rowIndexes \ {r})

GroupSum(k) == SumOfY({r \in 1..Len(data) : XKey(r) = k})

C5_PieGroupsOncePerKey ==
    effect = "pie" =>
        LET n == Cardinality(DistinctXKeys)
        IN  /\ Len(chart) = 1 + 2 * n
            /\ chart[1].tag = "g"
            /\ \A i \in 1..n :
                  /\ chart[1 + i].tag = "path"
                  /\ chart[1 + i].key \in DistinctXKeys
                  /\ chart[1 + i].n = GroupSum(chart[1 + i].key)
                  /\ chart[1 + n + i].tag = "text"
                  /\ chart[1 + n + i].key = chart[1 + i].key
            /\ \A i, j \in 1..n :
                  i < j => FirstIndex(chart[1 + i].key) < FirstIndex(chart[1 + j].key)

C5_Witness ==
    /\ effect = "pie"
    /\ data = Files[2] /\ xField = "cat" /\ yField = "v"
    /\ Len(chart) = 5
    /\ chart[2].key = Str("a") /\ chart[2].n = 3
    /\ chart[3].key = Str("b") /\ chart[3].n = 3

\* C6: when the state is ready to draw but no row survives filtering, the
\* draw leaves the chart area empty, for every chart type.
C6_EmptySeriesDrawsNothing ==
    (effect \in ChartTypes /\ ValidRows = << >>) => chart = << >>

C8_ErrorOnlyLogs ==
    [][errLog' # errLog =>
          UNCHANGED << data, columns, xField, yField, chartType, chart >>]_vars

C8_Witness ==
    last = "error" /\ errLog > 0 /\ chart # << >> /\ Ready

\* C9: columns is empty exactly when the dataset is empty, and otherwise is
\* the key list of the dataset's first row.
C9_ColumnsMatchDataset ==
    /\ (columns = << >>) <=> (data = << >>)
    /\ data # << >> => columns = Keys(data[1])

C9_Witness ==
    last = "complete" /\ data = << >> /\ columns = << >> /\ xField # ""

\* C10: once every started parse has called complete, the dataset is that of
\* the file selected most recently, whatever the order of the callbacks.
C10_LatestSelectionWins ==
    (pending = EmptyBag /\ errLog = 0 /\ latest # NoFile) => data = Files[latest]

=============================================================================
